---- MODULE Spec2Model ----
(***************************************************************************)
(* Booking core of SaloonAppBE: the transactional createBooking of the     *)
(* booking service, the plain createBooking / updateBookingStatus of       *)
(* src/services/api.js, and the Firestore store they run against.          *)
(* Times are epoch milliseconds; durations are minutes.                    *)
(***************************************************************************)
EXTENDS Integers, FiniteSets, Sequences, TLC

\* ---------------------------------------------------------------- bounds
NumProcs == 2
MaxStart == 1
MaxDur == 2
MaxBookings == 2
MaxClock == 1

\* ------------------------------------------------------------- constants
MsPerMinute == 60000
MsPerSecond == 1000
NanosPerMs == 1000000
MaxAttempts == 5

Procs == 1..NumProcs
Barbers == {"b1", "b2"}
Users == {"u1"}
Statuses == {"pending", "confirmed", "cancelled", "completed"}
InitialStatuses == {"pending"}
DocIds == 1..MaxBookings
\* readings of the caller's wall clock, in seconds
Clock == 0..MaxClock

\* the bookingData a caller may hand to createBooking: nothing checks it,
\* so a duration of zero minutes is among the inputs
BookingDataInputs ==
  [barberId : Barbers, userId : Users,
   bookingTime : {m * MsPerMinute : m \in 0..MaxStart},
   duration : 0..MaxDur, status : InitialStatuses]

NoData == [barberId |-> "none", userId |-> "none", bookingTime |-> 0,
           duration |-> 0, status |-> "none"]

\* ---------------------------------------------------- Firestore Timestamp
TimestampFromDate(ms) ==
  [seconds |-> ms \div MsPerSecond, nanoseconds |-> (ms % MsPerSecond) * NanosPerMs]

TimestampToDate(ts) ==
  ts.seconds * MsPerSecond + (ts.nanoseconds \div NanosPerMs)

\* the value of a field the document does not have
NoTimestamp == [undefined |-> TRUE]

\* a plain JavaScript number held in a field
Number(n) == [number |-> n]

\* v instanceof Timestamp
IsTimestamp(v) == DOMAIN v = {"seconds", "nanoseconds"}

\* the values api.js createBooking may get as bookingTime for the instant
\* ms: epoch milliseconds, or a Timestamp.  The call replaces the field in
\* the caller's object, so an object handed in a second time carries the
\* Timestamp of the first call.
ApiBookingTimes(ms) == {Number(ms), TimestampFromDate(ms)}

\* the guarded conversion of api.js createBooking: a bookingTime that is
\* truthy and no Timestamp is converted; a Timestamp, and the falsy number 0,
\* are stored as they are
EnsureTimestamp(v) ==
  IF IsTimestamp(v) THEN v
  ELSE IF v.number # 0 THEN TimestampFromDate(v.number)
  ELSE v

\* ------------------------------------------------------- interval algebra
\* bookingStart / bookingEnd of a request
bookingStart(data) == data.bookingTime
bookingEnd(data) == bookingStart(data) + data.duration * MsPerMinute

\* existingStart / existingEnd of a stored document
existingStart(d) == TimestampToDate(d.bookingTime)
existingEnd(d) == existingStart(d) + d.duration * MsPerMinute

\* variant: the test that only asks whether the new start falls inside
OverlapsStartInside(bStart, bEnd, d) ==
  bStart < existingEnd(d) /\ bStart >= existingStart(d)

\* the time-overlap test of the conflict loop
Overlaps(bStart, bEnd, d) ==
  bStart < existingEnd(d) /\ bEnd > existingStart(d)

\* variant: the query without its where clause
QueryAll(docs, barberId) == docs

\* query(bookingsRef, where('barberId', '==', barberId)) + getDocs
QueryByBarber(docs, barberId) == {d \in docs : d.barberId = barberId}

\* ------------------------------------------------------------------ state
VARIABLES
  bookings,       \* the 'bookings' collection: a set of documents
  nextId,         \* number of document ids handed out so far
  pc,             \* position of each createBooking call
  bookingData,    \* the argument of each createBooking call
  querySnapshot,  \* querySnapshot.docs of each call, while its write is pending
  staged,         \* the write buffered by transaction.set
  attempts,       \* runs of the update function so far
  result,         \* what the call resolved or rejected with
  updateResult,   \* what the last updateBookingStatus call settled with
  upload          \* each uploadImageToCloudinary call: position, response, result

vars == <<bookings, nextId, pc, bookingData, querySnapshot, staged, attempts, result,
          updateResult, upload>>

NoResult == [kind |-> "none", id |-> 0]
Ok(id) == [kind |-> "ok", id |-> id]
SlotUnavailable == [kind |-> "slot-unavailable", id |-> 0]
TxAborted == [kind |-> "aborted", id |-> 0]
\* TypeError: existingBooking.bookingTime.toDate is not a function
ToDateTypeError == [kind |-> "type-error", id |-> 0]

NoUpdate == [bookingId |-> 0, kind |-> "none"]
Updated(bookingId) == [bookingId |-> bookingId, kind |-> "ok"]
NotFound(bookingId) == [bookingId |-> bookingId, kind |-> "not-found"]

\* ------------------------------------------------ uploadImageToCloudinary
FileUris == {"file:///a.jpg", "file:///b.jpg"}

\* a secure_url that the parsed response does not have
Absent == "<absent>"
\* the null the function returns
Null == "<null>"

\* what the media host may answer: a body that is not JSON, the JSON value
\* null, an object with no secure_url, or an object with one (which may be
\* the empty string)
Responses ==
  {[body |-> "not-json", secure_url |-> Absent],
   [body |-> "null", secure_url |-> Absent],
   [body |-> "object", secure_url |-> Absent]}
  \cup [body : {"object"},
        secure_url : {"", "https://res.cloudinary.com/x/a.jpg",
                      "https://res.cloudinary.com/x/b.jpg"}]

NoResponse == [body |-> "none", secure_url |-> Absent]

NoUpload == [pc |-> "idle", fileUri |-> "none", response |-> NoResponse,
             settled |-> "pending", value |-> Null]

NoDoc == [id |-> 0, barberId |-> "none", userId |-> "none",
          bookingTime |-> NoTimestamp, duration |-> 0, status |-> "none",
          createdAt |-> NoTimestamp]

Init ==
  /\ bookings = {}
  /\ nextId = 0
  /\ pc = [p \in Procs |-> "idle"]
  /\ bookingData = [p \in Procs |-> NoData]
  /\ querySnapshot = [p \in Procs |-> {}]
  /\ staged = [p \in Procs |-> NoDoc]
  /\ attempts = [p \in Procs |-> 0]
  /\ result = [p \in Procs |-> NoResult]
  /\ updateResult = NoUpdate
  /\ upload = [p \in Procs |-> NoUpload]

\* document ids are left for every call that may still draw one
IdsLeft == nextId + Cardinality({p \in Procs : pc[p] = "read"}) < MaxBookings

\* doc(collection(db, 'bookings')): the ids an auto-generated reference may
\* get; the id is random, and unique among the documents and pending writes
newBookingIds ==
  DocIds \ ({d.id : d \in bookings} \cup {staged[p].id : p \in Procs})

\* ----------------------------------------- transactional createBooking
\* finalBookingData
finalBookingData(data, id, now) ==
  [id |-> id, barberId |-> data.barberId, userId |-> data.userId,
   bookingTime |-> TimestampFromDate(bookingStart(data)),
   duration |-> data.duration, status |-> data.status,
   createdAt |-> [seconds |-> now, nanoseconds |-> 0]]

\* documents read through transaction.get: the only reads the store
\* validates at commit.  The update function reads with getDocs(q), never
\* with transaction.get, so nothing is tracked.
TrackedReads(p) == {}

ReadSetValid(p) == \A d \in TrackedReads(p) : d \in bookings

\* variant: a commit that loses the buffered write
WriteDropped(docs, w) == docs

\* transaction.set applied at commit
CommittedDocs(docs, w) == docs \cup {w}

\* where a call stands after its update function throws: the error is no
\* Firestore error, so runTransaction does not retry and the call rejects
PcAfterThrow == "done"

\* createBooking(bookingData) is called: runTransaction starts
createBooking(p) ==
  /\ pc[p] = "idle"
  /\ IdsLeft
  /\ \E data \in BookingDataInputs :
       bookingData' = [bookingData EXCEPT ![p] = data]
  /\ pc' = [pc EXCEPT ![p] = "read"]
  /\ attempts' = [attempts EXCEPT ![p] = 1]
  /\ UNCHANGED <<bookings, nextId, querySnapshot, staged, result, updateResult, upload>>

\* the documents at which the conflict loop throws: a bookingTime that is no
\* Timestamp has no toDate, and an overlapping interval is a conflict
ThrowingDocs(q, bStart, bEnd) ==
  {d \in q : ~IsTimestamp(d.bookingTime) \/ Overlaps(bStart, bEnd, d)}

\* the loop walks querySnapshot.docs, which come in document-id order, and
\* throws at the first such document
FirstThrowing(q, bStart, bEnd) ==
  CHOOSE d \in ThrowingDocs(q, bStart, bEnd) :
    \A e \in ThrowingDocs(q, bStart, bEnd) : d.id <= e.id

\* the update function: await getDocs(q), the conflict loop, and, when no
\* conflict is found, the buffered transaction.set
updateFunction(p) ==
  /\ pc[p] = "read"
  /\ LET q == QueryByBarber(bookings, bookingData[p].barberId)
         bStart == bookingStart(bookingData[p])
         bEnd == bookingEnd(bookingData[p])
     IN IF ThrowingDocs(q, bStart, bEnd) # {}
        THEN /\ pc' = [pc EXCEPT ![p] = PcAfterThrow]
             /\ result' = [result EXCEPT ![p] =
                             IF IsTimestamp(FirstThrowing(q, bStart, bEnd).bookingTime)
                             THEN SlotUnavailable
                             ELSE ToDateTypeError]
             /\ querySnapshot' = [querySnapshot EXCEPT ![p] = {}]
             /\ UNCHANGED <<nextId, staged, bookingData>>
        ELSE /\ pc' = [pc EXCEPT ![p] = "commit"]
             /\ querySnapshot' = [querySnapshot EXCEPT ![p] = q]
             /\ \E now \in Clock, id \in newBookingIds :
                  staged' = [staged EXCEPT ![p] =
                               finalBookingData(bookingData[p], id, now)]
             /\ nextId' = nextId + 1
             /\ UNCHANGED <<result, bookingData>>
  /\ UNCHANGED <<bookings, attempts, updateResult, upload>>

\* runTransaction commits the buffered write, or re-runs the update
\* function when a tracked read was invalidated
commitTransaction(p) ==
  /\ pc[p] = "commit"
  /\ IF ReadSetValid(p)
     THEN /\ bookings' = CommittedDocs(bookings, staged[p])
          /\ pc' = [pc EXCEPT ![p] = "done"]
          /\ result' = [result EXCEPT ![p] = Ok(staged[p].id)]
          /\ querySnapshot' = [querySnapshot EXCEPT ![p] = {}]
          /\ staged' = [staged EXCEPT ![p] = NoDoc]
          /\ UNCHANGED <<attempts, bookingData>>
     ELSE IF attempts[p] < MaxAttempts
     THEN /\ pc' = [pc EXCEPT ![p] = "read"]
          /\ attempts' = [attempts EXCEPT ![p] = attempts[p] + 1]
          /\ querySnapshot' = [querySnapshot EXCEPT ![p] = {}]
          /\ staged' = [staged EXCEPT ![p] = NoDoc]
          /\ UNCHANGED <<bookings, result, bookingData>>
     ELSE /\ pc' = [pc EXCEPT ![p] = "done"]
          /\ result' = [result EXCEPT ![p] = TxAborted]
          /\ querySnapshot' = [querySnapshot EXCEPT ![p] = {}]
          /\ staged' = [staged EXCEPT ![p] = NoDoc]
          /\ UNCHANGED <<bookings, attempts, bookingData>>
  /\ UNCHANGED <<nextId, updateResult, upload>>

\* ------------------------------------------------ src/services/api.js
\* createBooking of api.js: the guarded conversion of bookingTime, then
\* addDoc with no read and no check
addBooking ==
  /\ IdsLeft
  /\ \E data \in BookingDataInputs, id \in newBookingIds :
     \E bookingTime \in ApiBookingTimes(data.bookingTime) :
       bookings' = bookings \cup
         {[id |-> id, barberId |-> data.barberId, userId |-> data.userId,
           bookingTime |-> EnsureTimestamp(bookingTime),
           duration |-> data.duration, status |-> data.status,
           createdAt |-> NoTimestamp]}
  /\ nextId' = nextId + 1
  /\ UNCHANGED <<pc, bookingData, querySnapshot, staged, attempts, result, updateResult,
               upload>>

\* variant: a write that creates the document when it is missing
setDocMerge(docs, bookingId, newStatus) ==
  IF \E d \in docs : d.id = bookingId
  THEN {IF d.id = bookingId THEN [d EXCEPT !.status = newStatus] ELSE d : d \in docs}
  ELSE docs \cup {[NoDoc EXCEPT !.id = bookingId, !.status = newStatus]}

\* variant: a write that replaces the whole document by { status }
setDocOverwrite(docs, bookingId, newStatus) ==
  {IF d.id = bookingId THEN [NoDoc EXCEPT !.id = bookingId, !.status = newStatus]
                       ELSE d : d \in docs}

\* updateDoc(bookingRef, { status: newStatus }): sets the one field of the
\* one document, and writes nothing when the document does not exist
updateDoc(docs, bookingId, newStatus) ==
  {IF d.id = bookingId THEN [d EXCEPT !.status = newStatus] ELSE d : d \in docs}

\* updateBookingStatus(bookingId, newStatus): updateDoc, which rejects with
\* not-found when the document does not exist
updateBookingStatus ==
  /\ \E bookingId \in DocIds, newStatus \in Statuses :
       /\ bookings' = updateDoc(bookings, bookingId, newStatus)
       /\ updateResult' = IF \E d \in bookings : d.id = bookingId
                          THEN Updated(bookingId)
                          ELSE NotFound(bookingId)
  /\ UNCHANGED <<nextId, pc, bookingData, querySnapshot, staged, attempts, result, upload>>

\* ------------------------------------------------ uploadImageToCloudinary
\* if (data.secure_url): undefined and the empty string are falsy
Truthy(v) == v # Absent /\ v # ""

\* variant: the catch block throws the error on
CatchRethrows(u) == [u EXCEPT !.pc = "done", !.settled = "rejected", !.value = Null]

\* catch (error) { ...; return null; }
Catch(u) == [u EXCEPT !.pc = "done", !.settled = "resolved", !.value = Null]

\* uploadImageToCloudinary(fileUri) is called: the form is built and the
\* request is sent
uploadImageToCloudinary(p) ==
  /\ upload[p].pc = "idle"
  /\ \E fileUri \in FileUris :
       upload' = [upload EXCEPT ![p] = [NoUpload EXCEPT !.pc = "fetch", !.fileUri = fileUri]]
  /\ UNCHANGED <<bookings, nextId, pc, bookingData, querySnapshot, staged, attempts, result,
                 updateResult>>

\* await fetch(...): the request fails and the catch block runs, or a
\* response arrives
fetchSettles(p) ==
  /\ upload[p].pc = "fetch"
  /\ \/ upload' = [upload EXCEPT ![p] = Catch(upload[p])]
     \/ \E r \in Responses :
          upload' = [upload EXCEPT ![p] = [upload[p] EXCEPT !.pc = "json", !.response = r]]
  /\ UNCHANGED <<bookings, nextId, pc, bookingData, querySnapshot, staged, attempts, result,
                 updateResult>>

\* await response.json() and the test of data.secure_url: parsing throws on
\* a body that is not JSON, and reading a property of null throws
jsonSettles(p) ==
  /\ upload[p].pc = "json"
  /\ LET r == upload[p].response
     IN upload' = [upload EXCEPT ![p] =
          IF r.body \in {"not-json", "null"} THEN Catch(upload[p])
          ELSE IF Truthy(r.secure_url)
          THEN [upload[p] EXCEPT !.pc = "done", !.settled = "resolved",
                                 !.value = r.secure_url]
          ELSE [upload[p] EXCEPT !.pc = "done", !.settled = "resolved", !.value = Null]]
  /\ UNCHANGED <<bookings, nextId, pc, bookingData, querySnapshot, staged, attempts, result,
                 updateResult>>

NextUpload ==
  \/ \E p \in Procs : uploadImageToCloudinary(p)
  \/ \E p \in Procs : fetchSettles(p)
  \/ \E p \in Procs : jsonSettles(p)

SpecUpload == Init /\ [][NextUpload]_vars

\* ------------------------------------------------------------- listings
\* toDate().toISOString(): the ISO string of an instant, held as its epoch
\* milliseconds (ISO strings order as their instants do)
IsoString(ts) == [iso |-> TimestampToDate(ts)]

\* transformDoc: every field that is a Timestamp becomes its ISO string;
\* a number stays a number and a field the document does not have stays
\* absent
transformDoc(d) ==
  [d EXCEPT !.bookingTime = IF IsTimestamp(d.bookingTime)
                            THEN IsoString(d.bookingTime) ELSE d.bookingTime,
            !.createdAt = IF IsTimestamp(d.createdAt)
                          THEN IsoString(d.createdAt) ELSE d.createdAt]

\* querySnapshot.docs of a query with no orderBy: by document id, ascending
RECURSIVE DocsOf(_)
DocsOf(docs) ==
  IF docs = {} THEN <<>>
  ELSE LET first == CHOOSE d \in docs : \A e \in docs : d.id <= e.id
       IN <<first>> \o DocsOf(docs \ {first})

\* getUserBookings(userId)
getUserBookings(userId) ==
  LET docs == DocsOf({d \in bookings : d.userId = userId})
  IN [i \in 1..Len(docs) |-> transformDoc(docs[i])]

\* getBarberBookings(barberId)
getBarberBookings(barberId) ==
  DocsOf({d \in bookings : d.barberId = barberId})

Next ==
  \/ \E p \in Procs : createBooking(p)
  \/ \E p \in Procs : updateFunction(p)
  \/ \E p \in Procs : commitTransaction(p)
  \/ addBooking
  \/ updateBookingStatus

Spec == Init /\ [][Next]_vars

\* only the transactional createBooking and updateBookingStatus
NextTx ==
  \/ \E p \in Procs : createBooking(p)
  \/ \E p \in Procs : updateFunction(p)
  \/ \E p \in Procs : commitTransaction(p)
  \/ updateBookingStatus

SpecTx == Init /\ [][NextTx]_vars

\* createBooking is called while no other call is under way
createBookingAlone(p) ==
  /\ \A q \in Procs : pc[q] \in {"idle", "done"}
  /\ createBooking(p)

\* the transactional createBooking called one call at a time
NextSeq ==
  \/ \E p \in Procs : createBookingAlone(p)
  \/ \E p \in Procs : updateFunction(p)
  \/ \E p \in Procs : commitTransaction(p)
  \/ updateBookingStatus

SpecSeq == Init /\ [][NextSeq]_vars

\* every awaited promise settles: a started update function runs, and a
\* buffered write is committed or refused
SpecFair ==
  /\ Init /\ [][Next]_vars
  /\ \A p \in Procs : WF_vars(updateFunction(p)) /\ WF_vars(commitTransaction(p))

TypeOK ==
  /\ nextId \in 0..MaxBookings
  /\ \A d \in bookings : d.id \in DocIds /\ d.status \in Statuses
  /\ \A p \in Procs : pc[p] \in {"idle", "read", "commit", "done"}

\* ================================================================ claims
\* conflict-participating statuses of the specification
Participating(d) == d.status \in {"pending", "confirmed"}

\* start and end of the interval a stored document stands for, in epoch
\* milliseconds, whichever way its bookingTime is held
StoredStart(d) ==
  IF IsTimestamp(d.bookingTime) THEN TimestampToDate(d.bookingTime)
  ELSE d.bookingTime.number
StoredEnd(d) == StoredStart(d) + d.duration * MsPerMinute

\* the creation instant of a listed entry; -1 when it has none
CreatedInstant(v) ==
  IF IsTimestamp(v) THEN TimestampToDate(v)
  ELSE IF DOMAIN v = {"iso"} THEN v.iso
  ELSE -1

\* the intervals of two documents are disjoint as half-open intervals
Disjoint(a, b) ==
  StoredEnd(a) <= StoredStart(b) \/ StoredEnd(b) <= StoredStart(a)

\* the interval of a request meets the interval of a stored document
ReqMeets(data, e) ==
  bookingStart(data) < StoredEnd(e) /\ bookingEnd(data) > StoredStart(e)

\* the intervals of two requests meet
ReqsMeet(a, b) ==
  bookingStart(a) < bookingEnd(b) /\ bookingEnd(a) > bookingStart(b)

SameBarber(p) == {e \in bookings : e.barberId = bookingData[p].barberId}

Succeeded(p) == pc[p] = "done" /\ result[p].kind = "ok"
Failed(p) ==
  pc[p] = "done" /\ result[p].kind \in {"slot-unavailable", "aborted", "type-error"}

\* the document a successful call wrote
DocOf(p) == CHOOSE d \in bookings : d.id = result[p].id

\* C1: any two distinct stored bookings of one barber that are both pending
\* or confirmed have disjoint half-open intervals.
C1_NoOverlap ==
  \A a \in bookings, b \in bookings :
    (a.id # b.id /\ a.barberId = b.barberId /\ Participating(a) /\ Participating(b))
      => Disjoint(a, b)

\* C2: of two finished createBooking calls for one barber whose intervals
\* meet, and which met no booking written by anyone else, exactly one
\* returned an id and the other failed; never both succeed.
C2_ExactlyOneSucceeds ==
  \A p \in Procs, q \in Procs :
    (/\ p # q
     /\ pc[p] = "done" /\ pc[q] = "done"
     /\ bookingData[p].barberId = bookingData[q].barberId
     /\ ReqsMeet(bookingData[p], bookingData[q])
     /\ \A e \in SameBarber(p) :
          \/ (Succeeded(p) /\ e.id = result[p].id)
          \/ (Succeeded(q) /\ e.id = result[q].id))
      => \/ (Succeeded(p) /\ Failed(q))
         \/ (Succeeded(q) /\ Failed(p))

\* C3: a createBooking transaction commits only when the bookings of its
\* barber are still the ones it read; it never commits on a stale read.
C3_NoCommitOnStaleRead ==
  [][\A p \in Procs :
       (pc[p] = "commit" /\ pc'[p] = "done" /\ result'[p].kind = "ok")
         => {e.id : e \in SameBarber(p)} = {e.id : e \in querySnapshot[p]}]_vars

\* C4: a createBooking call whose interval meets a stored pending or
\* confirmed booking of the same barber is rejected as a conflict by its
\* read-and-check step, and the bookings are left as they were.
C4_OverlapRejected ==
  [][\A p \in Procs :
       (/\ pc[p] = "read" /\ pc'[p] # "read"
        /\ \E e \in SameBarber(p) : Participating(e) /\ ReqMeets(bookingData[p], e))
         => /\ pc'[p] = "done"
            /\ result'[p] = SlotUnavailable
            /\ bookings' = bookings]_vars

\* C5: a createBooking call that touches a stored booking of its barber at
\* an endpoint and whose interval is disjoint from every stored booking of
\* that barber passes the check, and its commit stores the booking and
\* returns its id.
C5_BackToBackAccepted ==
  [][\A p \in Procs :
       /\ (/\ pc[p] = "read" /\ pc'[p] # "read"
           /\ \E e \in SameBarber(p) :
                \/ StoredEnd(e) = bookingStart(bookingData[p])
                \/ bookingEnd(bookingData[p]) = StoredStart(e)
           /\ \A e \in SameBarber(p) :
                \/ bookingEnd(bookingData[p]) <= StoredStart(e)
                \/ StoredEnd(e) <= bookingStart(bookingData[p]))
            => pc'[p] = "commit"
       /\ (pc[p] = "commit" /\ pc'[p] # "commit")
            => /\ pc'[p] = "done"
               /\ result'[p] = Ok(staged[p].id)
               /\ staged[p] \in bookings']_vars

\* C6: cancelled bookings take no part in the check: a createBooking call
\* that meets only cancelled bookings of its barber passes the check.
C6_CancelledFreesInterval ==
  [][\A p \in Procs :
       (/\ pc[p] = "read" /\ pc'[p] # "read"
        /\ \A e \in SameBarber(p) :
             ReqMeets(bookingData[p], e) => e.status = "cancelled")
         => pc'[p] = "commit"]_vars

\* C7: the outcome of the check of a createBooking call depends only on
\* the stored bookings of its own barber: it passes exactly when none of
\* them makes the loop throw, and bookings of other barbers never make it
\* fail.
C7_CrossResourceIndependence ==
  [][\A p \in Procs :
       (pc[p] = "read" /\ pc'[p] # "read")
         => (pc'[p] = "commit"
               <=> \A e \in SameBarber(p) :
                     IsTimestamp(e.bookingTime) /\ ~ReqMeets(bookingData[p], e))]_vars

\* C7 witness: two calls with identical intervals on different barbers both
\* succeeded.
C7_Witness ==
  \E p \in Procs, q \in Procs :
    /\ Succeeded(p) /\ Succeeded(q)
    /\ bookingData[p].barberId # bookingData[q].barberId
    /\ bookingData[p].bookingTime = bookingData[q].bookingTime
    /\ bookingData[p].duration = bookingData[q].duration
    /\ DocOf(p).barberId # DocOf(q).barberId

\* C8: a createBooking call that returns an id has added exactly one
\* document, with that id; a call that fails, and every step before the
\* end of a call, adds nothing and changes no document.
C8_AllOrNothing ==
  [][\A p \in Procs :
       /\ (pc[p] # "done" /\ pc'[p] = "done")
            => IF result'[p].kind = "ok"
               THEN \E d \in bookings' :
                      /\ d.id = result'[p].id
                      /\ \A e \in bookings : e.id # d.id
                      /\ bookings' = bookings \cup {d}
               ELSE bookings' = bookings
       /\ (pc[p] # pc'[p] /\ pc'[p] # "done") => bookings' = bookings]_vars

\* C8 witness: one call has succeeded and its document is stored, another
\* has failed.
C8_Witness ==
  \E p \in Procs, q \in Procs :
    /\ Succeeded(p) /\ \E d \in bookings : d.id = result[p].id
    /\ pc[q] = "done" /\ result[q] = SlotUnavailable
    /\ Cardinality(bookings) = 1

AllowedTransitions ==
  {<<"pending", "confirmed">>, <<"pending", "cancelled">>,
   <<"confirmed", "cancelled">>, <<"confirmed", "completed">>}

\* C9: the status of a booking changes only along pending -> confirmed,
\* pending -> cancelled, confirmed -> cancelled, confirmed -> completed.
C9_StatusStateMachine ==
  [][\A a \in bookings, b \in bookings' :
       (a.id = b.id /\ a.status # b.status)
         => <<a.status, b.status>> \in AllowedTransitions]_vars

\* C10: every stored booking was written by the commit of a transactional
\* createBooking call whose overlap check had passed.
C10_OnlyTransactionalWrites ==
  \A d \in bookings : \E p \in Procs : Succeeded(p) /\ result[p].id = d.id

\* C11: input is validated before the store is touched, so every stored
\* booking has a positive duration and a valid start.
C11_StoredBookingsAreValid ==
  \A d \in bookings : d.duration > 0 /\ StoredStart(d) >= 0

\* C12: every started createBooking call ends, with an id, with the conflict
\* error or with the transaction error that follows the last of at most
\* MaxAttempts runs; a finished call stays finished, and the conflict error
\* ends the call at once, without another run.
C12_TerminatesBounded ==
  /\ \A p \in Procs : [](pc[p] \in {"read", "commit"} => <>(pc[p] = "done"))
  /\ [](\A p \in Procs :
          /\ attempts[p] <= MaxAttempts
          /\ pc[p] = "done" =>
                /\ result[p].kind \in {"ok", "slot-unavailable", "aborted"}
                /\ SlotUnavailable # TxAborted)
  /\ [][\A p \in Procs :
          /\ pc[p] = "done" => (pc'[p] = "done" /\ result'[p] = result[p])
          /\ (result[p] # SlotUnavailable /\ result'[p] = SlotUnavailable)
               => (pc'[p] = "done" /\ attempts'[p] = attempts[p])]_vars

\* C13: an updateBookingStatus call with an id that no stored booking has
\* is rejected with not-found and leaves the bookings as they were; a call
\* with the id of a stored booking is not rejected so.
C13_UnknownIdNotFound ==
  [][updateResult' # updateResult =>
       IF \E d \in bookings : d.id = updateResult'.bookingId
       THEN updateResult'.kind = "ok"
       ELSE updateResult'.kind = "not-found" /\ bookings' = bookings]_vars

\* C13 witness: the last status update named an id that no stored booking
\* has, while other bookings are stored, and was rejected with not-found.
C13_Witness ==
  /\ updateResult.kind = "not-found"
  /\ bookings # {}
  /\ \A d \in bookings : d.id # updateResult.bookingId

\* C14: the conflict error of a createBooking call carries the id of a
\* stored booking of the same barber that meets the requested interval.
C14_ConflictNamesCollidingBooking ==
  \A p \in Procs :
    (pc[p] = "done" /\ result[p].kind = "slot-unavailable")
      => \E e \in SameBarber(p) : e.id = result[p].id /\ ReqMeets(bookingData[p], e)

\* a listing, given by the ids and the creation instants of its entries,
\* holds each of the given bookings once and is ordered by creation instant
ListsInCreationOrder(ids, instants, docs) ==
  /\ Len(ids) = Cardinality(docs)
  /\ {ids[i] : i \in 1..Len(ids)} = {d.id : d \in docs}
  /\ \A i \in 1..Len(ids), j \in 1..Len(ids) :
       i < j => instants[i] <= instants[j]

\* C15: getUserBookings and getBarberBookings return exactly the stored
\* bookings of the user / of the barber, ordered by createdAt ascending.
C15_ListingsInCreationOrder ==
  /\ \A u \in Users :
       LET list == getUserBookings(u)
       IN ListsInCreationOrder([i \in 1..Len(list) |-> list[i].id],
                               [i \in 1..Len(list) |-> CreatedInstant(list[i].createdAt)],
                               {d \in bookings : d.userId = u})
  /\ \A b \in Barbers :
       LET list == getBarberBookings(b)
       IN ListsInCreationOrder([i \in 1..Len(list) |-> list[i].id],
                               [i \in 1..Len(list) |-> CreatedInstant(list[i].createdAt)],
                               {d \in bookings : d.barberId = b})

\* C16: a step that only changes the status of stored bookings keeps the
\* no-overlap invariant: if no two pending or confirmed bookings of a
\* barber overlap before it, none do after it.
C16_StatusUpdateKeepsNoOverlap ==
  [][(/\ C1_NoOverlap
      /\ updateResult'.kind = "ok"
      /\ {d.id : d \in bookings'} = {d.id : d \in bookings}
      /\ Cardinality(bookings') = Cardinality(bookings))
       => C1_NoOverlap']_vars

\* C17: a stored booking stays stored, with the same id, barber, user,
\* start, duration and createdAt; a step changes at most the status, of at
\* most one booking, the one the status update named.
C17_PermanentAndImmutable ==
  [][/\ \A d \in bookings :
          \E e \in bookings' :
            /\ e.id = d.id
            /\ e.barberId = d.barberId /\ e.userId = d.userId
            /\ e.bookingTime = d.bookingTime /\ e.duration = d.duration
            /\ e.createdAt = d.createdAt
            /\ e # d => updateResult' = Updated(d.id)
     /\ Cardinality({d \in bookings : d \notin bookings'}) <= 1
     /\ \A d \in bookings', e \in bookings' : d.id = e.id => d = e]_vars

\* C17 witness: a status update has cancelled one booking while another
\* stored booking is still pending.
C17_Witness ==
  \E d \in bookings, e \in bookings :
    /\ d.id # e.id
    /\ updateResult = Updated(d.id) /\ d.status = "cancelled"
    /\ e.status = "pending"

\* C18: with createBooking called one call at a time and positive
\* durations, no two stored bookings of one barber overlap, whatever
\* their statuses are.
C18_SequentialNoOverlapAnyStatus ==
  (\A d \in bookings : d.duration > 0)
    => \A a \in bookings, b \in bookings :
         (a.id # b.id /\ a.barberId = b.barberId) => Disjoint(a, b)

\* C18 witness: two bookings of one barber are stored back to back, one
\* of them cancelled.
C18_Witness ==
  \E a \in bookings, b \in bookings :
    /\ a.id # b.id /\ a.barberId = b.barberId
    /\ a.duration > 0 /\ b.duration > 0
    /\ existingEnd(a) = existingStart(b)
    /\ a.status = "cancelled" /\ b.status = "pending"

\* C19: an upload never rejects; it resolves to the secure_url of the
\* parsed response when the response has one (a non-empty value), and to
\* null when the response has none and when the fetch or the JSON parsing
\* threw.
C19_UploadFailureIsAValue ==
  \A p \in Procs :
    upload[p].pc = "done" =>
      /\ upload[p].settled = "resolved"
      /\ upload[p].value =
           IF upload[p].response.secure_url \notin {Absent, ""}
           THEN upload[p].response.secure_url
           ELSE Null

\* C19 witness: one upload returned the url of its response, one returned
\* null because the fetch threw.
C19_Witness ==
  \E p \in Procs, q \in Procs :
    /\ upload[p].pc = "done" /\ upload[p].value = "https://res.cloudinary.com/x/a.jpg"
    /\ upload[q].pc = "done" /\ upload[q].response = NoResponse
    /\ upload[q].value = Null
====
